---- MODULE Spec2Model ----
(***************************************************************************)
(* AI Study Buddy (src/app.py): the generation gateway, the flashcard and  *)
(* quiz extractors, and the page script with its session state.            *)
(*                                                                         *)
(* A Python str is a sequence of one-character strings, so that the        *)
(* regular expressions of generate_flashcards and generate_quiz are        *)
(* matched character by character, as re does.                             *)
(***************************************************************************)
EXTENDS Integers, Sequences, FiniteSets, TLC

\* ------------------------------------------------------------------ str

\* The characters str.strip() removes and \s matches.
Whitespace == {" ", "\n", "\t", "\r"}

LowerOf ==
  ("A" :> "a") @@ ("B" :> "b") @@ ("C" :> "c") @@ ("D" :> "d") @@ ("E" :> "e") @@
  ("F" :> "f") @@ ("G" :> "g") @@ ("H" :> "h") @@ ("I" :> "i") @@ ("J" :> "j") @@
  ("K" :> "k") @@ ("L" :> "l") @@ ("M" :> "m") @@ ("N" :> "n") @@ ("O" :> "o") @@
  ("P" :> "p") @@ ("Q" :> "q") @@ ("R" :> "r") @@ ("S" :> "s") @@ ("T" :> "t") @@
  ("U" :> "u") @@ ("V" :> "v") @@ ("W" :> "w") @@ ("X" :> "x") @@ ("Y" :> "y") @@
  ("Z" :> "z")

UpperOf ==
  ("a" :> "A") @@ ("b" :> "B") @@ ("c" :> "C") @@ ("d" :> "D") @@ ("e" :> "E") @@
  ("f" :> "F") @@ ("g" :> "G") @@ ("h" :> "H") @@ ("i" :> "I") @@ ("j" :> "J") @@
  ("k" :> "K") @@ ("l" :> "L") @@ ("m" :> "M") @@ ("n" :> "N") @@ ("o" :> "O") @@
  ("p" :> "P") @@ ("q" :> "Q") @@ ("r" :> "R") @@ ("s" :> "S") @@ ("t" :> "T") @@
  ("u" :> "U") @@ ("v" :> "V") @@ ("w" :> "W") @@ ("x" :> "X") @@ ("y" :> "Y") @@
  ("z" :> "Z")

UpperLetters == DOMAIN LowerOf
LowerLetters == DOMAIN UpperOf

\* One character under re.IGNORECASE.
Lower(c) == IF c \in UpperLetters THEN LowerOf[c] ELSE c

\* str.upper()
upper(s) == [i \in 1..Len(s) |-> IF s[i] \in LowerLetters THEN UpperOf[s[i]] ELSE s[i]]

\* str.lower(), used to render a marker in lower case
lower(s) == [i \in 1..Len(s) |-> Lower(s[i])]

RECURSIVE lstrip(_)
lstrip(s) == IF s # <<>> /\ Head(s) \in Whitespace THEN lstrip(Tail(s)) ELSE s

RECURSIVE rstrip(_)
rstrip(s) ==
  IF s # <<>> /\ s[Len(s)] \in Whitespace THEN rstrip(SubSeq(s, 1, Len(s) - 1)) ELSE s

\* str.strip()
strip(s) == rstrip(lstrip(s))

\* str.startswith(prefix), case-sensitive
startswith(s, prefix) ==
  /\ Len(prefix) <= Len(s)
  /\ \A i \in 1..Len(prefix) : s[i] = prefix[i]

\* ------------------------------------------------------------------- re

\* The elements of the two patterns.
Lit(s)    == [s |-> s, t |-> "lit"]        \* literal text, IGNORECASE
WsStar    == [s |-> <<>>, t |-> "ws"]      \* \s*      greedy
LazyGroup == [s |-> <<>>, t |-> "lazy"]    \* (.*?)    lazy, DOTALL
ClassAD   == [s |-> <<>>, t |-> "class"]   \* ([A-D])  IGNORECASE
Ahead(s)  == [s |-> s, t |-> "ahead"]      \* (?=s|\Z)

NoMatch == [end |-> 0, groups |-> <<>>, ok |-> FALSE]

Min(S) == CHOOSE p \in S : \A q \in S : p <= q

\* The literal s stands in text at position pos (1-based), letter case ignored.
LitAt(s, text, pos) ==
  /\ pos + Len(s) - 1 <= Len(text)
  /\ \A i \in 1..Len(s) : Lower(text[pos + i - 1]) = Lower(s[i])

\* The positions of text at which the literal or the lookahead e matches; they are
\* looked up once for a text, and the matcher below steps from one to the next.
Occurrences(e, text) ==
  CASE e.t = "lit"   -> { p \in 1..Len(text) : LitAt(e.s, text, p) }
    [] e.t = "ahead" -> { p \in 1..Len(text) : LitAt(e.s, text, p) } \cup { Len(text) + 1 }
    [] OTHER         -> {}

RECURSIVE WsEnd(_, _)
\* The position after the longest run of whitespace from pos.
WsEnd(text, pos) ==
  IF pos <= Len(text) /\ text[pos] \in Whitespace THEN WsEnd(text, pos + 1) ELSE pos

RECURSIVE Match(_, _, _, _, _, _)
RECURSIVE GreedyFrom(_, _, _, _, _, _, _)
RECURSIVE LazyFrom(_, _, _, _, _, _, _)

\* The backtracking match of pat[k..] at pos: the first success in re's order.
\* occ[k] holds the occurrences of pat[k].
Match(pat, occ, k, text, pos, groups) ==
  IF k > Len(pat) THEN [end |-> pos, groups |-> groups, ok |-> TRUE]
  ELSE LET e == pat[k] IN
    CASE e.t = "lit" ->
           IF pos \in occ[k]
           THEN Match(pat, occ, k + 1, text, pos + Len(e.s), groups)
           ELSE NoMatch
      [] e.t = "ws" -> GreedyFrom(pat, occ, k, text, pos, WsEnd(text, pos), groups)
      [] e.t = "lazy" -> LazyFrom(pat, occ, k, text, pos, pos, groups)
      [] e.t = "class" ->
           IF pos <= Len(text) /\ Lower(text[pos]) \in {"a", "b", "c", "d"}
           THEN Match(pat, occ, k + 1, text, pos + 1, Append(groups, <<text[pos]>>))
           ELSE NoMatch
      [] e.t = "ahead" ->
           IF pos \in occ[k]
           THEN Match(pat, occ, k + 1, text, pos, groups)
           ELSE NoMatch

\* \s* took text[pos..upto-1]; on failure of the rest it gives one character back.
GreedyFrom(pat, occ, k, text, pos, upto, groups) ==
  LET r == Match(pat, occ, k + 1, text, upto, groups) IN
  IF r.ok THEN r
  ELSE IF upto > pos THEN GreedyFrom(pat, occ, k, text, pos, upto - 1, groups)
  ELSE NoMatch

\* (.*?) from pos has taken fewer than from - pos characters: it takes one more at
\* a time until the rest of the pattern matches. The rest starts with a literal or
\* a lookahead in both patterns, so the next length to try ends at its next occurrence.
LazyFrom(pat, occ, k, text, pos, from, groups) ==
  LET ends == IF k < Len(pat) /\ pat[k + 1].t \in {"lit", "ahead"}
              THEN { p \in occ[k + 1] : p >= from }
              ELSE from..(Len(text) + 1)
  IN IF ends = {} THEN NoMatch
     ELSE LET upto == Min(ends)
              r == Match(pat, occ, k + 1, text, upto,
                         Append(groups, SubSeq(text, pos, upto - 1)))
          IN IF r.ok THEN r ELSE LazyFrom(pat, occ, k, text, pos, upto + 1, groups)

RECURSIVE FindFrom(_, _, _, _)
\* The groups of the non-overlapping matches from pos on, left to right. Both
\* patterns start with a literal: a match starts at one of its occurrences.
FindFrom(pat, occ, text, pos) ==
  LET starts == { p \in occ[1] : p >= pos } IN
  IF starts = {} THEN <<>>
  ELSE LET p == Min(starts)
           r == Match(pat, occ, 1, text, p, <<>>)
       IN IF r.ok
          THEN <<r.groups>> \o FindFrom(pat, occ, text, IF r.end = p THEN p + 1 ELSE r.end)
          ELSE FindFrom(pat, occ, text, p + 1)

\* pattern.findall(text)
findall(pat, text) ==
  LET found == { FindFrom(pat, occ, text, 1) :
                 occ \in { [k \in 1..Len(pat) |-> Occurrences(pat[k], text)] } }
  IN CHOOSE groups \in found : TRUE

\* ------------------------------------------------------ the text service

\* What model.generate_content does is the service's choice: it raises, or it
\* returns a response with parts (their text), a prompt feedback and candidates.
NoBlock == <<>>

Response(parts, blockReason, finishReasons) ==
  [block_reason |-> blockReason, candidates |-> finishReasons, exc |-> <<>>,
   parts |-> parts, raises |-> FALSE]

Raises(message) ==
  [block_reason |-> NoBlock, candidates |-> <<>>, exc |-> message,
   parts |-> <<>>, raises |-> TRUE]

RECURSIVE Concat(_)
Concat(ss) == IF ss = <<>> THEN <<>> ELSE Head(ss) \o Concat(Tail(ss))

\* response.text
TextOf(resp) == Concat(resp.parts)

\* finish_reason != 'STOP': finish_reason is a member of the service's enum (the
\* code reads its .name), and a member of an enum is never equal to a str.
FinishReasonIsNot(finish_reason, name) == TRUE

generate_with_gemini(resp) ==
  IF resp.raises THEN <<"A","n"," ","e","r","r","o","r"," ","o","c","c","u","r","r","e","d"," ","d",
        "u","r","i","n","g"," ","g","e","n","e","r","a","t","i","o","n",":"," ">> \o resp.exc
  ELSE IF resp.parts = <<>> THEN
    IF resp.block_reason # NoBlock
    THEN <<"C","o","n","t","e","n","t"," ","g","e","n","e","r","a","t","i","o","n"," ","b","l","o",
          "c","k","e","d","."," ","R","e","a","s","o","n",":"," ">> \o resp.block_reason
    ELSE IF resp.candidates # <<>> /\ FinishReasonIsNot(resp.candidates[1], <<"S","T","O","P">>)
    THEN <<"C","o","n","t","e","n","t"," ","g","e","n","e","r","a","t","i","o","n"," ","s","t","o",
          "p","p","e","d","."," ","R","e","a","s","o","n",":"," ">> \o resp.candidates[1]
    ELSE <<"E","r","r","o","r",":"," ","R","e","c","e","i","v","e","d"," ","a","n"," ","e","m","p",
          "t","y"," ","r","e","s","p","o","n","s","e"," ","f","r","o","m"," ","t","h","e"," ","A",
          "P","I",".">>
  ELSE TextOf(resp)

\* A faulty variant of IsFailureText: it misses the "Content generation" messages.
IsFailureTextOfTwoPrefixes(s) ==
  \/ startswith(s, <<"A","n"," ","e","r","r","o","r"," ","o","c","c","u","r","r","e","d">>)
  \/ startswith(s, <<"E","r","r","o","r",":">>)

\* The three prefixes by which the callers tell a failure message.
IsFailureText(s) ==
  \/ startswith(s, <<"A","n"," ","e","r","r","o","r"," ","o","c","c","u","r","r","e","d">>)
  \/ startswith(s, <<"C","o","n","t","e","n","t"," ","g","e","n","e","r","a","t","i","o","n">>)
  \/ startswith(s, <<"E","r","r","o","r",":">>)

\* ------------------------------------------------------- the operations

\* What an operation returns: a str, or a list of items; with it, how many times
\* the service was called and whether the extraction pattern was applied.
Str(s, calls, applied) ==
  [applied |-> applied, calls |-> calls, items |-> <<>>, kind |-> "str", text |-> s]

Items(xs, calls) ==
  [applied |-> TRUE, calls |-> calls, items |-> xs, kind |-> "list", text |-> <<>>]

generate_summary(text, resp) ==
  IF text = <<>> THEN Str(<<"P","l","e","a","s","e"," ","p","r","o","v","i","d","e"," ","s","o","m",
        "e"," ","t","e","x","t"," ","t","o"," ","s","u","m","m","a","r","i","z","e",".">>, 0, FALSE)
  ELSE Str(generate_with_gemini(resp), 1, FALSE)

FlashcardPattern ==
  << Lit(<<"Q","u","e","s","t","i","o","n",":">>), WsStar, LazyGroup, Lit(<<"\n","A","n","s","w",
        "e","r",":">>), WsStar, LazyGroup,
     Ahead(<<"\n","\n","Q","u","e","s","t","i","o","n",":">>) >>

\* A faulty variant of Flashcard: the two groups as matched, not stripped.
FlashcardAsMatched(match) == <<match[1], match[2]>>

\* One flashcard: the tuple (q.strip(), a.strip()) of a match.
Flashcard(match) == <<strip(match[1]), strip(match[2])>>

generate_flashcards(text, resp) ==
  IF text = <<>>
  THEN Str(<<"P","l","e","a","s","e"," ","p","r","o","v","i","d","e"," ","s","o","m","e"," ","t",
        "e","x","t"," ","t","o"," ","g","e","n","e","r","a","t","e"," ","f","l","a","s","h","c","a",
        "r","d","s"," ","f","r","o","m",".">>, 0, FALSE)
  ELSE LET flashcards_text == generate_with_gemini(resp) IN
    IF IsFailureText(flashcards_text) THEN Str(flashcards_text, 1, FALSE)
    ELSE LET matches == findall(FlashcardPattern, flashcards_text)
             flashcards == [i \in 1..Len(matches) |-> Flashcard(matches[i])]
         IN IF flashcards = <<>>
            THEN IF strip(flashcards_text) # <<>>
                 THEN Str(<<"C","o","u","l","d"," ","n","o","t"," ","p","a","r","s","e"," ","f","l",
                       "a","s","h","c","a","r","d","s"," ","f","r","o","m"," ","t","h","e"," ","r",
                       "e","s","p","o","n","s","e","."," ","R","a","w"," ","r","e","s","p","o","n",
                       "s","e",":","\n">>
                          \o flashcards_text, 1, TRUE)
                 ELSE Str(<<"T","h","e"," ","m","o","d","e","l"," ","d","i","d"," ","n","o","t"," ",
                       "g","e","n","e","r","a","t","e"," ","a","n","y"," ","f","l","a","s","h","c",
                       "a","r","d","s"," ","o","r"," ","t","h","e"," ","r","e","s","p","o","n","s",
                       "e"," ","w","a","s"," ","e","m","p","t","y",".">>,
                          1, TRUE)
            ELSE Items(flashcards, 1)

QuizPattern ==
  << Lit(<<"Q","u","e","s","t","i","o","n",":">>), WsStar, LazyGroup, Lit(<<"\n","A",
        ")">>), WsStar, LazyGroup,
     Lit(<<"\n","B",")">>), WsStar, LazyGroup, Lit(<<"\n","C",")">>), WsStar, LazyGroup,
     Lit(<<"\n","D",")">>), WsStar, LazyGroup, Lit(<<"\n","A","n","s","w","e","r",
           ":">>), WsStar, ClassAD >>

\* A faulty variant of QuizItem: the answer letter as written, not upper-cased.
QuizItemAsWritten(match) ==
  LET m == [i \in 1..6 |-> strip(match[i])] IN
  [answer |-> m[6],
   options |-> ("A" :> m[2]) @@ ("B" :> m[3]) @@ ("C" :> m[4]) @@ ("D" :> m[5]),
   question |-> m[1]]

\* One quiz item: the dict {"question", "options": {"A", "B", "C", "D"}, "answer"}.
QuizItem(match) ==
  LET m == [i \in 1..6 |-> strip(match[i])] IN
  [answer |-> upper(m[6]),
   options |-> ("A" :> m[2]) @@ ("B" :> m[3]) @@ ("C" :> m[4]) @@ ("D" :> m[5]),
   question |-> m[1]]

generate_quiz(text, resp) ==
  IF text = <<>>
  THEN Str(<<"P","l","e","a","s","e"," ","p","r","o","v","i","d","e"," ","s","o","m","e"," ","t",
        "e","x","t"," ","t","o"," ","g","e","n","e","r","a","t","e"," ","a"," ","q","u","i","z"," ",
        "f","r","o","m",".">>, 0, FALSE)
  ELSE LET quiz_text == generate_with_gemini(resp) IN
    IF IsFailureText(quiz_text) THEN Str(quiz_text, 1, FALSE)
    ELSE LET matches == findall(QuizPattern, quiz_text)
             quiz_items == [i \in 1..Len(matches) |-> QuizItem(matches[i])]
         IN IF quiz_items = <<>>
            THEN IF strip(quiz_text) # <<>>
                 THEN Str(<<"C","o","u","l","d"," ","n","o","t"," ","p","a","r","s","e"," ","q","u",
                       "i","z"," ","q","u","e","s","t","i","o","n","s"," ","f","r","o","m"," ","t",
                       "h","e"," ","r","e","s","p","o","n","s","e","."," ","R","a","w"," ","r","e",
                       "s","p","o","n","s","e",":","\n">>
                          \o quiz_text, 1, TRUE)
                 ELSE Str(<<"T","h","e"," ","m","o","d","e","l"," ","d","i","d"," ","n","o","t"," ",
                       "g","e","n","e","r","a","t","e"," ","a","n","y"," ","q","u","i","z"," ","q",
                       "u","e","s","t","i","o","n","s"," ","o","r"," ","t","h","e"," ","r","e","s",
                       "p","o","n","s","e"," ","w","a","s"," ","e","m","p","t","y",".">>,
                          1, TRUE)
            ELSE Items(quiz_items, 1)

\* A faulty variant of generate_answer: it does not test the question.
generate_answer_of_any_question(context, question, resp) ==
  IF context = <<>> THEN Str(<<"P","l","e","a","s","e"," ","p","r","o","v","i","d","e"," ","s","t",
        "u","d","y"," ","m","a","t","e","r","i","a","l"," ","f","i","r","s","t",".">>, 0, FALSE)
  ELSE Str(generate_with_gemini(resp), 1, FALSE)

generate_answer(context, question, resp) ==
  IF context = <<>> THEN Str(<<"P","l","e","a","s","e"," ","p","r","o","v","i","d","e"," ","s","t",
        "u","d","y"," ","m","a","t","e","r","i","a","l"," ","f","i","r","s","t",".">>, 0, FALSE)
  ELSE IF question = <<>> THEN Str(<<"P","l","e","a","s","e"," ","e","n","t","e","r"," ","a"," ",
        "q","u","e","s","t","i","o","n",".">>, 0, FALSE)
  ELSE Str(generate_with_gemini(resp), 1, FALSE)

\* ---------------------------------------------------------------- state

VARIABLES
  op,        \* the operation last invoked on its own: "summary", "flashcards", "quiz", "answer"
  arg,       \* its text / context argument
  question,  \* generate_answer's question
  shape,     \* how the service built its text, when it wrote blocks
  resp,      \* what the service did on that call
  result,    \* what the operation returned
  session_state,   \* st.session_state
  input_select,    \* the widgets, as the user left them
  pasted_text,
  uploaded_file,
  qa_question,
  quiz_radio,
  study_material,  \* study_material at the end of the last run of the script
  made_from,       \* history: the study material each cached result was generated from
  events           \* history: how many actions the user has taken

callVars == <<op, arg, question, shape, resp, result>>

widgetVars == <<input_select, pasted_text, uploaded_file, qa_question, quiz_radio>>

pageVars == <<session_state, widgetVars, study_material, made_from, events>>

vars == <<callVars, pageVars>>

NoShape == [blocks |-> <<>>, seps |-> <<>>]

\* ----------------------------------------------------- the session state

\* A Python value held in the session: None, a str, or a list of items.
None == [items |-> <<>>, kind |-> "none", text |-> <<>>]

Value(returned) == [items |-> returned.items, kind |-> returned.kind, text |-> returned.text]

\* `if value:`
Truthy(v) == (v.kind = "str" /\ v.text # <<>>) \/ (v.kind = "list" /\ v.items # <<>>)

\* prev_uploaded_filename = None, and uploaded_file = None
NoFilename == "None"
NoFile == [content |-> <<>>, decodes |-> TRUE, name |-> NoFilename]

\* An empty dict
EmptyDict == <<>>

\* quiz radio with nothing selected (index=None)
NoChoice == <<>>

\* Lines 132-140
InitSession ==
  [flashcard_states |-> EmptyDict,
   flashcards_result |-> None,
   prev_pasted_text |-> <<>>,
   prev_uploaded_filename |-> NoFilename,
   qa_answer |-> None,
   quiz_answers |-> EmptyDict,
   quiz_result_data |-> None,
   show_quiz_results |-> FALSE,
   summary_result |-> None]

NothingMade == [flashcards |-> <<>>, qa |-> <<>>, quiz |-> <<>>, summary |-> <<>>]

InitCalls ==
  /\ op = "none"
  /\ arg = <<>>
  /\ question = <<>>
  /\ shape = NoShape
  /\ resp = Raises(<<>>)
  /\ result = Str(<<>>, 0, FALSE)

InitPage ==
  /\ session_state = InitSession
  /\ input_select = "Paste Text"
  /\ pasted_text = <<>>
  /\ uploaded_file = NoFile
  /\ qa_question = <<>>
  /\ quiz_radio = NoChoice
  /\ study_material = <<>>
  /\ made_from = NothingMade
  /\ events = 0

Init == InitCalls /\ InitPage

\* --------------------------------------------- the service's block texts

\* The most blocks the service writes in one flashcard text.
MaxBlocks == 3

\* The most flashcards rendered into one text.
MaxCards == 2

\* The most blocks the service writes in one quiz text.
MaxQuizBlocks == 3

RECURSIVE Join(_, _)
\* blocks[1] seps[1] blocks[2] ... blocks[n]
Join(blocks, seps) ==
  IF Len(blocks) <= 1 THEN Concat(blocks)
  ELSE Head(blocks) \o Head(seps) \o Join(Tail(blocks), Tail(seps))

Marker(s, low) == IF low THEN lower(s) ELSE s

\* Block i writes the digit i in each of its texts.
Digit == <<"1", "2", "3", "4", "5", "6", "7", "8", "9">>

\* Between two blocks: one empty line, two empty lines, one line holding a space.
EmptyLine  == <<"\n","\n">>
EmptyLines == { <<"\n","\n">>, <<"\n","\n","\n">> }
BlankLines == EmptyLines \cup { <<"\n"," ","\n">> }

\* "Question: <q>\nAnswer: <a>", the format the prompt of generate_flashcards asks for.
FlashBlock(q, a, low) ==
  Marker(<<"Q","u","e","s","t","i","o","n",":">>, low) \o <<" ">> \o q \o <<"\n">> \o Marker(<<"A",
        "n","s","w","e","r",":">>, low) \o <<" ">> \o a

\* The question and the answer of block i of a text of blocks: the answer is one
\* line, or two paragraphs and a trailing newline.
BlockQ(i) == <<"q">> \o <<Digit[i]>> \o <<" ">>
BlockA(i, b) == IF b.para THEN <<"y">> \o <<Digit[i]>> \o <<"\n","\n","z",
      "\n">> ELSE <<"y">> \o <<Digit[i]>>

BlocksText(s) ==
  Join([i \in 1..Len(s.blocks) |-> FlashBlock(BlockQ(i), BlockA(i, s.blocks[i]), s.blocks[i].low)],
       s.seps)

BlockShapes ==
  UNION { [blocks : [1..n -> [low : BOOLEAN, para : BOOLEAN]], seps : [1..(n - 1) -> BlankLines]] :
          n \in 1..MaxBlocks }

\* Flashcards to render. Questions: plain with a trailing space, plain, blank, and
\* one holding an "Answer:" line. Answers: two paragraphs, blank, and one holding a
\* "Question:" paragraph.
CardQ == { <<"x"," ">>, <<"k">>, <<" ">>, <<"v","\n","A","n","s","w","e","r",":"," ","w">>, <<"v",
      "\n","a","n","s","w","e","r",":"," ","w">> }
CardA == { <<"y","\n","\n","z","\n">>, <<" ">>, <<"u","\n","\n","Q","u","e","s","t","i","o","n",":",
      " ","w">> }

\* The cards rendered in the exact format, joined by one empty line.
CardsText(s) ==
  Join([i \in 1..Len(s.blocks) |-> FlashBlock(s.blocks[i].q, s.blocks[i].a, FALSE)], s.seps)

CardShapes ==
  UNION { [blocks : [1..n -> [a : CardA, q : CardQ]], seps : [1..(n - 1) -> {EmptyLine}]] :
          n \in 1..MaxCards }

\* A block as the prompt of generate_quiz asks for it, its "C)" line left out when
\* b.c is FALSE; b.answer is what follows "Answer:".
QuizBlock(i, b) ==
  <<"Q","u","e","s","t","i","o","n",":"," ","q">> \o <<Digit[i]>> \o
  <<"\n","A",")"," ","a">> \o <<Digit[i]>> \o
  <<"\n","B",")"," ","b">> \o <<Digit[i]>> \o
  (IF b.c THEN <<"\n","C",")"," ","c">> \o <<Digit[i]>> ELSE <<>>) \o
  <<"\n","D",")"," ","d">> \o <<Digit[i]>> \o
  <<"\n","A","n","s","w","e","r",":"," ">> \o b.answer

QuizText(s) == Join([i \in 1..Len(s.blocks) |-> QuizBlock(i, s.blocks[i])], s.seps)

QuizShapes ==
  UNION { [blocks : [1..n -> [answer : { <<"B">>, <<"c">>, <<"x">> }, c : BOOLEAN]],
           seps : [1..(n - 1) -> {EmptyLine}]] :
          n \in 1..MaxQuizBlocks }

\* The study material handed to an operation.
Notes == <<"m">>
Materials == { <<>>, <<" ">>, Notes }

\* What the service may do on a call, apart from writing blocks.
PartsChoices ==
  { <<>>,
    << <<>> >>,
    << <<" ","\n">> >>,
    << <<"x">> >>,
    << <<"Q","u","e","s","t","i","o","n",":"," ","x">>, <<"\n","B",")"," ","y">> >>,
    << <<"Q","u","e","s","t","i","o","n",":"," ","x","\n","A","n","s","w","e","r",":"," ","y">> >>,
    << <<"E","r","r","o","r",":"," ","n","o","n","e",".","\n","\n">>, <<"Q","u","e","s","t","i","o",
          "n",":"," ","x","\n","A","n","s","w","e","r",":"," ","y">> >>,
    << <<"Q","u","e","s","t","i","o","n",":"," ","x","\n","A",")"," ","a","\n","B",")"," ","b","\n",
          "C",")"," ","c","\n","D",")"," ","d","\n","A","n","s","w","e","r",":"," ","b">> >>,
    << <<"C","o","n","t","e","n","t"," ","g","e","n","e","r","a","t","i","o","n"," ","d","o","n",
          "e",".","\n">>, <<"Q","u","e","s","t","i","o","n",":"," ","x","\n","A",")"," ","a","\n",
          "B",")"," ","b","\n","C",")"," ","c","\n","D",")"," ","d","\n","A","n","s","w","e","r",
          ":"," ","A">> >> }

BlockReasons == { NoBlock, <<"S","A","F","E","T","Y">> }

CandidateLists == { <<>>, << <<"S","T","O","P">> >>, << <<"M","A","X","_","T","O","K","E","N",
      "S">> >> }

CallResponses ==
  { Raises(m) : m \in { <<>>, <<"t","i","m","e","o","u","t">> } } \cup
  { Response(p, b, c) : p \in PartsChoices, b \in BlockReasons, c \in CandidateLists }

\* The response whose one part is the text t, stopped normally.
Wrote(t) == Response(<<t>>, NoBlock, << <<"S","T","O","P">> >>)

\* -------------------------------------------------------------- actions

\* An operation is invoked and returns; the actions below invoke one operation,
\* once.
Call(o, text, q, s, r, returned) ==
  /\ op' = o
  /\ arg' = text
  /\ question' = q
  /\ shape' = s
  /\ resp' = r
  /\ result' = returned
  /\ UNCHANGED pageVars

CallSummary ==
  /\ op = "none"
  /\ \E text \in Materials, r \in CallResponses :
        Call("summary", text, <<>>, NoShape, r, generate_summary(text, r))

CallFlashcards ==
  /\ op = "none"
  /\ \E text \in Materials, r \in CallResponses :
        Call("flashcards", text, <<>>, NoShape, r, generate_flashcards(text, r))

CallQuiz ==
  /\ op = "none"
  /\ \E text \in Materials, r \in CallResponses :
        Call("quiz", text, <<>>, NoShape, r, generate_quiz(text, r))

CallAnswer ==
  /\ op = "none"
  /\ \E context \in Materials, q \in { <<>>, <<"w","h","y","?">> }, r \in CallResponses :
        Call("answer", context, q, NoShape, r, generate_answer(context, q, r))

\* generate_flashcards on a text of flashcard blocks
FlashcardsOfBlocks ==
  /\ op = "none"
  /\ \E s \in BlockShapes :
        Call("flashcards", Notes, <<>>, s, Wrote(BlocksText(s)),
             generate_flashcards(Notes, Wrote(BlocksText(s))))

\* generate_flashcards on the rendering of flashcards
FlashcardsOfCards ==
  /\ op = "none"
  /\ \E s \in CardShapes :
        Call("flashcards", Notes, <<>>, s, Wrote(CardsText(s)),
             generate_flashcards(Notes, Wrote(CardsText(s))))

\* generate_quiz on a text of quiz blocks
QuizOfBlocks ==
  /\ op = "none"
  /\ \E s \in QuizShapes :
        Call("quiz", Notes, <<>>, s, Wrote(QuizText(s)),
             generate_quiz(Notes, Wrote(QuizText(s))))

NextCalls == CallSummary \/ CallFlashcards \/ CallQuiz \/ CallAnswer

SpecCalls == Init /\ [][NextCalls]_vars

SpecBlocks == Init /\ [][FlashcardsOfBlocks]_vars

SpecCards == Init /\ [][FlashcardsOfCards]_vars

SpecQuiz == Init /\ [][QuizOfBlocks]_vars

\* ------------------------------------------------------ the page script

\* Lines 149-176: the study material of this run, whether it is new, and the
\* session with its prev_ fields brought up to date.
InputHandling(ss, method, pasted, file) ==
  IF method = "Paste Text" THEN
    IF pasted # ss.prev_pasted_text
    THEN [material |-> pasted, reset_results |-> TRUE,
          ss |-> [ss EXCEPT !.prev_pasted_text = pasted,
                            !.prev_uploaded_filename = NoFilename]]
    ELSE [material |-> pasted, reset_results |-> FALSE, ss |-> ss]
  ELSE IF file # NoFile THEN
    IF file.name # ss.prev_uploaded_filename
    THEN IF file.decodes
         THEN [material |-> file.content, reset_results |-> TRUE,
               ss |-> [ss EXCEPT !.prev_uploaded_filename = file.name,
                                 !.prev_pasted_text = <<>>]]
         ELSE [material |-> <<>>, reset_results |-> FALSE, ss |-> ss]
    ELSE [material |-> IF file.decodes THEN file.content ELSE <<>>,
          reset_results |-> FALSE, ss |-> ss]
  ELSE [material |-> <<>>, reset_results |-> FALSE, ss |-> ss]

\* Lines 180-186
ResetResults(ss) ==
  [ss EXCEPT !.flashcard_states = EmptyDict,
             !.quiz_answers = EmptyDict,
             !.show_quiz_results = FALSE,
             !.quiz_result_data = None,
             !.qa_answer = None,
             !.summary_result = None,
             !.flashcards_result = None]

\* dict[key] = value
SetItem(dict, key, value) ==
  [k \in DOMAIN dict \cup {key} |-> IF k = key THEN value ELSE dict[k]]

\* dict.get(key, default)
Get(dict, key, default) == IF key \in DOMAIN dict THEN dict[key] ELSE default

\* The buttons, by their keys: key, and show_flashcard_i and hide_flashcard_i.
Button(key) == <<key, 0>>
CardButton(key, i) == <<key, i>>
NoButton == <<"none", 0>>

\* The run so far: the study material, the session, the history, and whether
\* st.rerun() has stopped the run.
Page(material, ss, mf, rerun) == [material |-> material, mf |-> mf, rerun |-> rerun, ss |-> ss]

\* Lines 200-212
TabSummary(pg, btn, r) ==
  IF btn = Button("summarize_btn")
  THEN [pg EXCEPT !.ss.summary_result = Value(generate_summary(pg.material, r)),
                  !.mf.summary = pg.material]
  ELSE pg

\* Lines 215-219
FlashcardsPressed(pg, btn, r) ==
  IF btn = Button("flashcards_btn")
  THEN [pg EXCEPT !.ss.flashcards_result = Value(generate_flashcards(pg.material, r)),
                  !.ss.flashcard_states = EmptyDict,
                  !.mf.flashcards = pg.material]
  ELSE pg

\* Lines 221-241; card i has the key flashcard_i and the buttons show_flashcard_i
\* and hide_flashcard_i
FlashcardsDisplay(pg, btn) ==
  LET cards == IF Truthy(pg.ss.flashcards_result) /\ pg.ss.flashcards_result.kind = "list"
               THEN 0..(Len(pg.ss.flashcards_result.items) - 1) ELSE {}
      hidden == { i \in cards : btn = CardButton("hide",
             i) /\ Get(pg.ss.flashcard_states, i, FALSE) }
      shown == { i \in cards : btn = CardButton("show",
             i) /\ ~Get(pg.ss.flashcard_states, i, FALSE) }
  IN IF hidden # {}
     THEN [pg EXCEPT !.ss.flashcard_states = SetItem(@, CHOOSE i \in hidden : TRUE, FALSE),
                     !.rerun = TRUE]
     ELSE IF shown # {}
     THEN [pg EXCEPT !.ss.flashcard_states = SetItem(@, CHOOSE i \in shown : TRUE, TRUE),
                     !.rerun = TRUE]
     ELSE pg

\* Lines 214-241
TabFlashcards(pg, btn, r) == FlashcardsDisplay(FlashcardsPressed(pg, btn, r), btn)

RECURSIVE RadioAnswers(_, _, _)
\* Lines 259-267: quiz_answers[i] = the selection of the radio of question i, for
\* the questions 0..n-1
RadioAnswers(answers, radio, n) ==
  IF n = 0 THEN answers
  ELSE SetItem(RadioAnswers(answers, radio, n - 1), n - 1, Get(radio, n - 1, NoChoice))

\* Lines 244-249
QuizPressed(pg, btn, r) ==
  IF btn = Button("quiz_btn")
  THEN [pg EXCEPT !.ss.quiz_result_data = Value(generate_quiz(pg.material, r)),
                  !.ss.quiz_answers = EmptyDict,
                  !.ss.show_quiz_results = FALSE,
                  !.mf.quiz = pg.material]
  ELSE pg

\* Lines 251-299
QuizDisplay(pg, btn, radio) ==
  IF Truthy(pg.ss.quiz_result_data) /\ pg.ss.quiz_result_data.kind = "list" THEN
    IF ~pg.ss.show_quiz_results THEN
      IF btn = Button("submit_quiz")
      THEN [pg EXCEPT !.ss.quiz_answers =
                        RadioAnswers(@, radio, Len(pg.ss.quiz_result_data.items)),
                      !.ss.show_quiz_results = TRUE,
                      !.rerun = TRUE]
      ELSE [pg EXCEPT !.ss.quiz_answers =
                        RadioAnswers(@, radio, Len(pg.ss.quiz_result_data.items))]
    ELSE IF btn = Button("hide_results")
         THEN [pg EXCEPT !.ss.show_quiz_results = FALSE,
                         !.ss.quiz_answers = EmptyDict,
                         !.rerun = TRUE]
         ELSE pg
  ELSE pg

\* Lines 243-299, which an earlier st.rerun() skips
TabQuiz(pg, btn, r, radio) ==
  IF pg.rerun THEN pg ELSE QuizDisplay(QuizPressed(pg, btn, r), btn, radio)

\* Lines 301-318, which an earlier st.rerun() skips
TabQa(pg, btn, r, user_question) ==
  IF pg.rerun THEN pg
  ELSE IF btn = Button("qa_btn") /\ user_question # <<>>
  THEN [pg EXCEPT !.ss.qa_answer = Value(generate_answer(pg.material, user_question, r)),
                  !.mf.qa = pg.material]
  ELSE pg

\* Lines 198-318: the four tabs, top to bottom
Tabs(pg, btn, r, radio, user_question) ==
  TabQa(TabQuiz(TabFlashcards(TabSummary(pg, btn, r), btn, r), btn, r, radio),
        btn, r, user_question)

\* Lines 179-321, after the input handling
AfterInput(in, mf, radio, user_question, btn, r) ==
  IF in.reset_results THEN Page(in.material, ResetResults(in.ss), NothingMade, TRUE)
  ELSE IF in.material # <<>>
  THEN Tabs(Page(in.material, in.ss, mf, FALSE), btn, r, radio, user_question)
  ELSE Page(in.material, in.ss, mf, FALSE)

\* One run of the script, lines 131-325, with the widgets as they are and btn the
\* button pressed (NoButton: none); r is what the service does if it is called.
Run(ss, mf, method, pasted, file, radio, user_question, btn, r) ==
  AfterInput(InputHandling(ss, method, pasted, file), mf, radio, user_question, btn, r)

\* st.rerun(): the run that follows a run which ended in it; no button is pressed.
Rerun(first, method, pasted, file, radio, user_question, r) ==
  IF first.rerun
  THEN Run(first.ss, first.mf, method, pasted, file, radio, user_question, NoButton, r)
  ELSE first

\* What one action of the user sets off: a run of the script and, when the run
\* ends in st.rerun(), the run that follows it.
Runs(method, pasted, file, radio, user_question, btn, r) ==
  Rerun(Run(session_state, made_from, method, pasted, file, radio, user_question, btn, r),
        method, pasted, file, radio, user_question, r)

\* The most actions the user takes in one session.
MaxEvents == 6

\* The user changes widgets to the given values or presses btn, and the page is run.
Event(method, pasted, file, radio, user_question, btn, r) ==
  /\ events < MaxEvents
  /\ \E out \in { Runs(method, pasted, file, radio, user_question, btn, r) } :
     /\ events' = events + 1
     /\ input_select' = method
     /\ pasted_text' = pasted
     /\ uploaded_file' = file
     /\ quiz_radio' = radio
     /\ qa_question' = user_question
     /\ session_state' = out.ss
     /\ made_from' = out.mf
     /\ study_material' = out.material
     /\ UNCHANGED callVars

Press(btn, r) ==
  Event(input_select, pasted_text, uploaded_file, quiz_radio, qa_question, btn, r)

\* ------------------------------------------------------------ the user

\* Two study materials, and the files that hold them.
Other == <<"n">>
Contents == { Notes, Other }

\* a.txt in two versions, b.txt, and c.txt which is not UTF-8.
Files ==
  { [content |-> c, decodes |-> TRUE, name |-> "a.txt"] : c \in Contents }
  \cup { [content |-> Notes, decodes |-> TRUE, name |-> "b.txt"],
         [content |-> <<>>, decodes |-> FALSE, name |-> "c.txt"] }

\* What the service does when the page calls it.
PageResponses ==
  { Wrote(<<"Q","u","e","s","t","i","o","n",":"," ","x","\n","A",")"," ","a","\n","B",")"," ","b",
        "\n","C",")"," ","c","\n","D",")"," ","d","\n","A","n","s","w","e","r",":"," ","b">>),
    Response(<<>>, <<"S","A","F","E","T","Y">>, <<>>) }

NoResponse == Raises(<<>>)

\* The tabs are on the page: the last run had study material.
TabsShown == study_material # <<>>

CardsShown ==
  IF TabsShown /\ Truthy(session_state.flashcards_result)
     /\ session_state.flashcards_result.kind = "list"
  THEN 0..(Len(session_state.flashcards_result.items) - 1) ELSE {}

QuizShown ==
  /\ TabsShown
  /\ Truthy(session_state.quiz_result_data)
  /\ session_state.quiz_result_data.kind = "list"

\* f"{k}) {v}" for the options of question i
RadioOptions(i) ==
  LET options == session_state.quiz_result_data.items[i + 1].options IN
  { <<k, ")", " ">> \o options[k] : k \in DOMAIN options }

SelectInputMethod ==
  \E method \in {"Paste Text", "Upload Text File"} :
    /\ method # input_select
    /\ Event(method, pasted_text, uploaded_file, quiz_radio, qa_question, NoButton, NoResponse)

EditPastedText ==
  \E text \in Contents \cup {<<>>} :
    /\ input_select = "Paste Text"
    /\ text # pasted_text
    /\ Event(input_select, text, uploaded_file, quiz_radio, qa_question, NoButton, NoResponse)

UploadFile ==
  \E file \in Files :
    /\ input_select = "Upload Text File"
    /\ file # uploaded_file
    /\ Event(input_select, pasted_text, file, quiz_radio, qa_question, NoButton, NoResponse)

RemoveFile ==
  /\ input_select = "Upload Text File"
  /\ uploaded_file # NoFile
  /\ Event(input_select, pasted_text, NoFile, quiz_radio, qa_question, NoButton, NoResponse)

EditQuestion ==
  \E q \in { <<>>, <<"w","h","y","?">> } :
    /\ TabsShown
    /\ q # qa_question
    /\ Event(input_select, pasted_text, uploaded_file, quiz_radio, q, NoButton, NoResponse)

ChooseAnswer ==
  /\ QuizShown /\ ~session_state.show_quiz_results
  /\ \E i \in 0..(Len(session_state.quiz_result_data.items) - 1) :
       \E choice \in RadioOptions(i) :
         /\ Get(quiz_radio, i, NoChoice) # choice
         /\ Event(input_select, pasted_text, uploaded_file, SetItem(quiz_radio, i, choice),
                  qa_question, NoButton, NoResponse)

GenerateSummary == TabsShown /\ \E r \in PageResponses : Press(Button("summarize_btn"), r)

GenerateFlashcards == TabsShown /\ \E r \in PageResponses : Press(Button("flashcards_btn"), r)

GenerateQuiz == TabsShown /\ \E r \in PageResponses : Press(Button("quiz_btn"), r)

GetAnswer == TabsShown /\ \E r \in PageResponses : Press(Button("qa_btn"), r)

ShowAnswer ==
  \E i \in CardsShown :
    /\ ~Get(session_state.flashcard_states, i, FALSE)
    /\ Press(CardButton("show", i), NoResponse)

HideAnswer ==
  \E i \in CardsShown :
    /\ Get(session_state.flashcard_states, i, FALSE)
    /\ Press(CardButton("hide", i), NoResponse)

SubmitQuiz == QuizShown /\ ~session_state.show_quiz_results /\ Press(Button("submit_quiz"), NoResponse)

RetakeQuiz == QuizShown /\ session_state.show_quiz_results /\ Press(Button("hide_results"), NoResponse)

Next ==
  \/ SelectInputMethod \/ EditPastedText \/ UploadFile \/ RemoveFile
  \/ EditQuestion \/ ChooseAnswer
  \/ GenerateSummary \/ GenerateFlashcards \/ GenerateQuiz \/ GetAnswer
  \/ ShowAnswer \/ HideAnswer \/ SubmitQuiz \/ RetakeQuiz

Spec == Init /\ [][Next]_vars

\* --------------------------------------------------------------- claims

Trimmed(s) == strip(s) = s

Contains(s, lit) == \E p \in 1..Len(s) : LitAt(lit, s, p)

HasChar(s, c) == \E p \in 1..Len(s) : s[p] = c

\* C1: of a text made of N >= 1 well-formed "Question: / Answer:" blocks, a blank
\* line or more between two of them and the markers in any letter case,
\* generate_flashcards returns N pairs, pair i with the question of block i, every
\* question and answer non-empty and trimmed.
C1_OnePairPerBlock ==
  (op = "flashcards" /\ shape # NoShape) =>
    /\ result.kind = "list"
    /\ Len(result.items) = Len(shape.blocks)
    /\ \A i \in 1..Len(result.items) :
         /\ result.items[i][1] = strip(BlockQ(i))
         /\ result.items[i][1] # <<>> /\ Trimmed(result.items[i][1])
         /\ result.items[i][2] # <<>> /\ Trimmed(result.items[i][2])

\* C1 where every line between two blocks is empty: the code does what C1 says.
C1_OnePairPerBlockEmptyLines ==
  (\A i \in 1..Len(shape.seps) : shape.seps[i] \in EmptyLines) => C1_OnePairPerBlock

\* C2: of a quiz text with one block that lacks its "C)" line and well-formed
\* blocks otherwise, generate_quiz returns one item per well-formed block, and no
\* item holds a question or option text of the block that lacks "C)".
WellFormedQuizBlock(b) == b.c /\ b.answer \in { <<"B">>, <<"c">> }

LacksC(s) == { i \in 1..Len(s.blocks) : ~s.blocks[i].c }

C2_BlockWithoutCIsDropped ==
  ( /\ op = "quiz" /\ shape # NoShape
    /\ Cardinality(LacksC(shape)) = 1
    /\ Len(shape.blocks) >= 2
    /\ \A i \in 1..Len(shape.blocks) : i \notin LacksC(shape) => WellFormedQuizBlock(shape.blocks[i]) )
  =>
    /\ result.kind = "list"
    /\ Len(result.items) = Len(shape.blocks) - 1
    /\ \A i \in 1..Len(result.items) : \A bad \in LacksC(shape) :
         /\ ~HasChar(result.items[i].question, Digit[bad])
         /\ \A k \in {"A", "B", "C", "D"} : ~HasChar(result.items[i].options[k], Digit[bad])

\* C3: M >= 1 flashcards with non-empty texts, rendered as "Question: <q>\nAnswer: <a>"
\* blocks joined by one blank line, come back from generate_flashcards as the same
\* M pairs in the same order, trimmed.
RoundTrips ==
  /\ result.kind = "list"
  /\ Len(result.items) = Len(shape.blocks)
  /\ \A i \in 1..Len(result.items) :
       result.items[i] = <<strip(shape.blocks[i].q), strip(shape.blocks[i].a)>>

C3_RoundTripOfAnyTexts == (op = "flashcards" /\ shape # NoShape) => RoundTrips

\* C3 as amended: the same, of flashcards whose texts hold a character that is not
\* whitespace and hold neither "Question:" nor "Answer:" in any letter case.
PlainText(t) ==
  /\ strip(t) # <<>>
  /\ ~Contains(lower(t), <<"q","u","e","s","t","i","o","n",":">>)
  /\ ~Contains(lower(t), <<"a","n","s","w","e","r",":">>)

PlainCards(s) ==
  \A i \in 1..Len(s.blocks) : PlainText(s.blocks[i].q) /\ PlainText(s.blocks[i].a)

C3_RoundTripOfPlainTexts ==
  (op = "flashcards" /\ shape # NoShape /\ PlainCards(shape)) => RoundTrips

C3_Witness ==
  /\ op = "flashcards" /\ shape # NoShape /\ PlainCards(shape)
  /\ Len(shape.blocks) = 2
  /\ shape.blocks[1].q # shape.blocks[2].q
  /\ result.items = << << <<"x">>, <<"y","\n","\n","z">> >>, << <<"k">>, <<"y","\n","\n","z">> >> >>

\* C4: when the pattern has no match in the text the service generated,
\* generate_flashcards and generate_quiz return the "did not generate any" message
\* for a text that is empty or all whitespace, and the "Could not parse" message
\* followed by the generated text, unchanged, otherwise.
NoMatchMessage ==
      IF \A p \in 1..Len(TextOf(resp)) : TextOf(resp)[p] \in Whitespace
      THEN IF op = "flashcards"
           THEN <<"T","h","e"," ","m","o","d","e","l"," ","d","i","d"," ","n","o","t"," ","g","e",
                 "n","e","r","a","t","e"," ","a","n","y"," ","f","l","a","s","h","c","a","r","d",
                 "s"," ","o","r"," ","t","h","e"," ","r","e","s","p","o","n","s","e"," ","w","a",
                 "s"," ","e","m","p","t","y",".">>
           ELSE <<"T","h","e"," ","m","o","d","e","l"," ","d","i","d"," ","n","o","t"," ","g","e",
                 "n","e","r","a","t","e"," ","a","n","y"," ","q","u","i","z"," ","q","u","e","s",
                 "t","i","o","n","s"," ","o","r"," ","t","h","e"," ","r","e","s","p","o","n","s",
                 "e"," ","w","a","s"," ","e","m","p","t","y",".">>
      ELSE IF op = "flashcards"
           THEN <<"C","o","u","l","d"," ","n","o","t"," ","p","a","r","s","e"," ","f","l","a","s",
                 "h","c","a","r","d","s"," ","f","r","o","m"," ","t","h","e"," ","r","e","s","p",
                 "o","n","s","e","."," ","R","a","w"," ","r","e","s","p","o","n","s","e",":",
                 "\n">> \o TextOf(resp)
           ELSE <<"C","o","u","l","d"," ","n","o","t"," ","p","a","r","s","e"," ","q","u","i","z",
                 " ","q","u","e","s","t","i","o","n","s"," ","f","r","o","m"," ","t","h","e"," ",
                 "r","e","s","p","o","n","s","e","."," ","R","a","w"," ","r","e","s","p","o","n",
                 "s","e",":","\n">> \o TextOf(resp)

Pattern == IF op = "flashcards" THEN FlashcardPattern ELSE QuizPattern

C4_NoMatchMessages ==
  ( /\ op \in {"flashcards", "quiz"} /\ result.calls = 1
    /\ ~resp.raises /\ resp.parts # <<>>
    /\ findall(Pattern, TextOf(resp)) = <<>> )
  => result.text = NoMatchMessage

\* C4 where the operation did apply its pattern: the code does what C4 says.
C4_NoMatchMessagesWhenApplied ==
  (op \in {"flashcards", "quiz"} /\ result.applied /\ result.kind = "str") =>
    result.text = NoMatchMessage

\* C5: every item generate_quiz returns has the options A, B, C and D and no
\* other, and its answer is one of the upper-case letters A, B, C, D, also when
\* the text writes it in lower case: the answer is a key of the item's options.
C5_ItemsAreWellKeyed ==
  (op = "quiz" /\ result.kind = "list") =>
    \A i \in 1..Len(result.items) :
      /\ DOMAIN result.items[i].options = {"A", "B", "C", "D"}
      /\ Len(result.items[i].answer) = 1
      /\ result.items[i].answer[1] \in {"A", "B", "C", "D"}
      /\ result.items[i].answer[1] \in DOMAIN result.items[i].options

C5_Witness ==
  /\ op = "quiz" /\ shape # NoShape /\ result.kind = "list"
  /\ Len(shape.blocks) = 2 /\ Len(result.items) = 2
  /\ shape.blocks[1].answer = <<"c">>
  /\ result.items[1].answer = <<"C">>

\* C6: when the service returns without raising and supplies no content, the
\* outcome is Blocked(reason) if a block reason is present; otherwise
\* Stopped(reason) if a candidate exists whose finish reason is not the normal
\* stop; otherwise Empty.
NoContent == ~resp.raises /\ resp.parts = <<>>

C6_NoContentOutcome ==
  (op # "none" /\ result.calls = 1 /\ NoContent) =>
    result.text =
      IF resp.block_reason # NoBlock
      THEN <<"C","o","n","t","e","n","t"," ","g","e","n","e","r","a","t","i","o","n"," ","b","l",
            "o","c","k","e","d","."," ","R","e","a","s","o","n",":"," ">> \o resp.block_reason
      ELSE IF resp.candidates # <<>> /\ resp.candidates[1] # <<"S","T","O","P">>
      THEN <<"C","o","n","t","e","n","t"," ","g","e","n","e","r","a","t","i","o","n"," ","s","t",
            "o","p","p","e","d","."," ","R","e","a","s","o","n",":"," ">> \o resp.candidates[1]
      ELSE <<"E","r","r","o","r",":"," ","R","e","c","e","i","v","e","d"," ","a","n"," ","e","m",
            "p","t","y"," ","r","e","s","p","o","n","s","e"," ","f","r","o","m"," ","t","h","e"," ",
            "A","P","I",".">>

\* C7: whenever the service returns non-empty content, generate_flashcards and
\* generate_quiz handle it as success text: a content that holds a well-formed
\* block yields a list of items, whatever the content begins with.
SomeContent == ~resp.raises /\ resp.parts # <<>> /\ TextOf(resp) # <<>>

C7_ContentIsExtracted ==
  (result.calls = 1 /\ SomeContent) =>
    /\ (op = "flashcards" /\ findall(FlashcardPattern, TextOf(resp)) # <<>>)
         => result.kind = "list"
    /\ (op = "quiz" /\ findall(QuizPattern, TextOf(resp)) # <<>>)
         => result.kind = "list"

\* C8: whenever the gateway's outcome is a failure (no content, or an exception),
\* generate_flashcards and generate_quiz return the failure message unchanged
\* without applying the pattern to it, and the service was called once.
FailureMessages ==
  { <<"A","n"," ","e","r","r","o","r"," ","o","c","c","u","r","r","e","d"," ","d","u","r","i","n",
        "g"," ","g","e","n","e","r","a","t","i","o","n",":"," ">> \o resp.exc,
    <<"C","o","n","t","e","n","t"," ","g","e","n","e","r","a","t","i","o","n"," ","b","l","o","c",
          "k","e","d","."," ","R","e","a","s","o","n",":"," ">> \o resp.block_reason,
    <<"C","o","n","t","e","n","t"," ","g","e","n","e","r","a","t","i","o","n"," ","s","t","o","p",
          "p","e","d","."," ","R","e","a","s","o","n",":",
          " ">> \o (IF resp.candidates = <<>> THEN <<>> ELSE resp.candidates[1]),
    <<"E","r","r","o","r",":"," ","R","e","c","e","i","v","e","d"," ","a","n"," ","e","m","p","t",
          "y"," ","r","e","s","p","o","n","s","e"," ","f","r","o","m"," ","t","h","e"," ","A","P",
          "I",".">> }

C8_FailureIsReturnedAsIs ==
  (op \in {"flashcards", "quiz"} /\ arg # <<>> /\ (resp.raises \/ resp.parts = <<>>)) =>
    /\ result.kind = "str"
    /\ result.text \in FailureMessages
    /\ resp.raises => result.text = <<"A","n"," ","e","r","r","o","r"," ","o","c","c","u","r","r",
          "e","d"," ","d","u","r","i","n","g"," ","g","e","n","e","r","a","t","i","o","n",":",
          " ">> \o resp.exc
    /\ ~result.applied
    /\ result.calls = 1

C8_Witness ==
  /\ op = "flashcards" /\ arg = Notes
  /\ resp = Response(<<>>, <<"S","A","F","E","T","Y">>, << <<"S","T","O","P">> >>)
  /\ result.text = <<"C","o","n","t","e","n","t"," ","g","e","n","e","r","a","t","i","o","n"," ",
        "b","l","o","c","k","e","d","."," ","R","e","a","s","o","n",":"," ","S","A","F","E","T",
        "Y">>
  /\ ~result.applied

\* C9: with an empty source text (generate_answer: an empty context or an empty
\* question) the operations return their fixed message and do not call the
\* service; with non-empty inputs each calls it exactly once.
C9_NoCallOnEmptyInput ==
  /\ op = "summary" =>
       IF arg = <<>>
       THEN result.calls = 0 /\ result.text = <<"P","l","e","a","s","e"," ","p","r","o","v","i","d",
             "e"," ","s","o","m","e"," ","t","e","x","t"," ","t","o"," ","s","u","m","m","a","r",
             "i","z","e",".">>
       ELSE result.calls = 1
  /\ op = "flashcards" =>
       IF arg = <<>>
       THEN result.calls = 0
            /\ result.text = <<"P","l","e","a","s","e"," ","p","r","o","v","i","d","e"," ","s","o",
                  "m","e"," ","t","e","x","t"," ","t","o"," ","g","e","n","e","r","a","t","e"," ",
                  "f","l","a","s","h","c","a","r","d","s"," ","f","r","o","m",".">>
       ELSE result.calls = 1
  /\ op = "quiz" =>
       IF arg = <<>>
       THEN result.calls = 0
            /\ result.text = <<"P","l","e","a","s","e"," ","p","r","o","v","i","d","e"," ","s","o",
                  "m","e"," ","t","e","x","t"," ","t","o"," ","g","e","n","e","r","a","t","e"," ",
                  "a"," ","q","u","i","z"," ","f","r","o","m",".">>
       ELSE result.calls = 1
  /\ op = "answer" =>
       IF arg = <<>>
       THEN result.calls = 0 /\ result.text = <<"P","l","e","a","s","e"," ","p","r","o","v","i","d",
             "e"," ","s","t","u","d","y"," ","m","a","t","e","r","i","a","l"," ","f","i","r","s",
             "t",".">>
       ELSE IF question = <<>>
       THEN result.calls = 0 /\ result.text = <<"P","l","e","a","s","e"," ","e","n","t","e","r"," ",
             "a"," ","q","u","e","s","t","i","o","n",".">>
       ELSE result.calls = 1

C9_Witness ==
  /\ op = "answer" /\ arg = Notes /\ question = <<>>
  /\ result.calls = 0
  /\ result.text = <<"P","l","e","a","s","e"," ","e","n","t","e","r"," ","a"," ","q","u","e","s",
        "t","i","o","n",".">>

\* C10: after any sequence of user actions, every cached result the page displays
\* was generated from the study material the page shows.
Cached ==
  [flashcards |-> session_state.flashcards_result,
   qa |-> session_state.qa_answer,
   quiz |-> session_state.quiz_result_data,
   summary |-> session_state.summary_result]

C10_ResultsAreOfTheMaterialShown ==
  TabsShown =>
    \A tab \in DOMAIN Cached : Truthy(Cached[tab]) => made_from[tab] = study_material
====
